---- MODULE Spec2Model ----
(***************************************************************************)
(* A model of the file reader of astrbot_plugin_file_reader (main.py):     *)
(* the format registry, FileReader.detect_file_type with its lru_cache,    *)
(* validate_file, check_dependencies, the extractors, read_text_file's     *)
(* encoding fallback, read_file with its temporary-file bookkeeping, and   *)
(* read_any_file_to_text.                                                  *)
(*                                                                         *)
(* Strings of the program are sequences of one-character strings, so that  *)
(* len(), slicing, lower() and suffix extraction are computed.  Byte       *)
(* strings are sequences of numbers 0..255.                                *)
(***************************************************************************)
EXTENDS Integers, Sequences, FiniteSets, TLC

VARIABLES
    fs,             \* the directory: file name -> file (its kind, size, content)
    cache,          \* the lru_cache of detect_file_type, least recently used first
    magicAvailable, \* whether "import magic" succeeds in this process
    avail,          \* PDFMINER_AVAILABLE, DOCX2TXT_AVAILABLE, ... of this process
    max_file_size,  \* FileReader.max_file_size
    temp_files,     \* FileReader._temp_files
    disk_tmp,       \* the temporary .docx artifacts that exist on disk
    tmp_owner,      \* history: which call created each temporary artifact
    pc,             \* per worker: where its read_file call stands
    loc,            \* per worker: the locals of its read_file call
    interfered,     \* history: a call deleted or untracked another call's artifact in use
    sample,         \* the text file read_text_file is applied to, and its arguments
    inputs,         \* which repertoire the environment answers from in this run:
                    \* library results, text-file bytes, chardet answers, max_length
    ret,            \* the observation of the call that just returned
    current_file_info, \* astrbot_plugin_file_reader.current_file_info
    handlers,       \* per message event: where its handlers stand, what on_request saw
    prompt,         \* per message event: what on_request appended to req.prompt
    stored          \* history: how many times current_file_info was given a content

pluginVars == <<current_file_info, handlers, prompt, stored>>

readerVars == <<fs, cache, magicAvailable, avail, max_file_size, temp_files,
                disk_tmp, tmp_owner, pc, loc, interfered, sample, inputs, ret>>

vars == <<readerVars, pluginVars>>

-----------------------------------------------------------------------------
(* Bounds of the model                                                     *)

\* longest text an extraction library hands back
MaxLen == 3
\* largest max_length a caller passes
MaxCut == 3
\* temporary names tempfile.NamedTemporaryFile can hand out
MaxTmp == 2

-----------------------------------------------------------------------------
(* Python helpers                                                          *)

None == "None"

\* Optional[int]: no value (Python's None), or one number
Nothing == <<>>
Some(n) == <<n>>
IsSome(x) == x # <<>>
ValueOf(x) == x[1]

Min(a, b) == IF a < b THEN a ELSE b

\* s[:n] for n >= 0
Take(s, n) == SubSeq(s, 1, Min(n, Len(s)))

\* x in s, for a list s
InSeq(x, s) == \E i \in 1..Len(s) : s[i] = x

\* list.remove(x): drops the first occurrence
RemoveFirst(s, x) ==
    LET i == CHOOSE k \in 1..Len(s) : s[k] = x /\ \A j \in 1..(k-1) : s[j] # x
    IN  SubSeq(s, 1, i-1) \o SubSeq(s, i+1, Len(s))

\* c * n, a character repeated
Repeat(c, n) == [i \in 1..n |-> c]

UpperOf ==
    [a |-> "A", b |-> "B", c |-> "C", d |-> "D", e |-> "E", f |-> "F", g |-> "G",
     h |-> "H", i |-> "I", j |-> "J", k |-> "K", l |-> "L", m |-> "M", n |-> "N",
     o |-> "O", p |-> "P", q |-> "Q", r |-> "R", s |-> "S", t |-> "T", v |-> "V",
     w |-> "W", x |-> "X", y |-> "Y"]

\* str.lower() on one character
LowerChar(c) ==
    IF \E l \in DOMAIN UpperOf : UpperOf[l] = c
    THEN CHOOSE l \in DOMAIN UpperOf : UpperOf[l] = c
    ELSE c

\* str.lower()
Lower(s) == [i \in 1..Len(s) |-> LowerChar(s[i])]

\* str.upper(), used to build the sample file names only
Upper(s) == [i \in 1..Len(s) |-> IF s[i] \in DOMAIN UpperOf THEN UpperOf[s[i]] ELSE s[i]]

\* pathlib's PurePath.suffix: the part of the name from its last dot, unless
\* that dot is the first or the last character of the name
Suffix(name) ==
    LET dots == {i \in 1..Len(name) : name[i] = "."}
    IN  IF dots = {} THEN <<>>
        ELSE LET i == CHOOSE d \in dots : \A e \in dots : e <= d
             IN  IF 1 < i /\ i < Len(name) THEN SubSeq(name, i, Len(name)) ELSE <<>>

-----------------------------------------------------------------------------
(* The format registry                                                     *)

MB == 1024 * 1024

\* A MIME type is a sequence of segments, so that "x in mime_type" (a
\* substring test) is a test for a segment.
OfficeVendor == "vnd.openxmlformats-officedocument"
MimePdf == <<"application/pdf">>
MimeDocx == <<"application/", OfficeVendor, ".", "wordprocessingml", ".document">>
MimeMsword == <<"application/msword">>
MimeXlsx == <<"application/", OfficeVendor, ".", "spreadsheetml", ".sheet">>
MimeXls == <<"application/vnd.ms-excel">>
MimeCsv == <<"text/csv">>
MimePptx == <<"application/", OfficeVendor, ".", "presentationml", ".presentation">>
MimePpt == <<"application/vnd.ms-powerpoint">>
MimePlain == <<"text/plain">>
MimePython == <<"text/x-python">>
MimeJson == <<"application/json">>
MimeXml == <<"text/xml">>
MimeHtml == <<"text/html">>

FileTypes == <<"pdf", "docx", "excel", "csv", "pptx", "text">>

FILE_TYPES_CONFIG ==
  [pdf |->
    [extensions |-> {<<".","p","d","f">>},
     handler |-> "read_pdf_to_text",
     mime_types |-> {MimePdf},
     requires |-> {"pdfminer"},
     max_size |-> Nothing],
   docx |->
    [extensions |-> {<<".","d","o","c","x">>, <<".","d","o","c">>},
     handler |-> "read_docx_to_text",
     mime_types |-> {MimeDocx, MimeMsword},
     requires |-> {"docx2txt", "python-docx"},
     max_size |-> Nothing],
   excel |->
    [extensions |-> {
        <<".","x","l","s","x">>, <<".","x","l","s">>, <<".","x","l","s","m">>,
        <<".","o","d","s">>},
     handler |-> "read_excel_to_text",
     mime_types |-> {MimeXlsx, MimeXls},
     requires |-> {"pandas"},
     max_size |-> Nothing],
   csv |->
    [extensions |-> {<<".","c","s","v">>},
     handler |-> "read_csv_to_text",
     mime_types |-> {MimeCsv},
     requires |-> {"pandas"},
     max_size |-> Nothing],
   pptx |->
    [extensions |-> {<<".","p","p","t","x">>, <<".","p","p","t">>, <<".","o","d","p">>},
     handler |-> "read_pptx_to_text",
     mime_types |-> {MimePptx, MimePpt},
     requires |-> {"python-pptx"},
     max_size |-> Nothing],
   text |->
    [extensions |-> {
        <<".","t","x","t">>, <<".","l","o","g">>, <<".","m","d">>,
        <<".","m","a","r","k","d","o","w","n">>, <<".","j","s","o","n">>,
        <<".","x","m","l">>, <<".","h","t","m","l">>, <<".","h","t","m">>,
        <<".","y","a","m","l">>, <<".","y","m","l">>, <<".","i","n","i">>,
        <<".","c","f","g">>, <<".","c","o","n","f">>,
        <<".","p","r","o","p","e","r","t","i","e","s">>, <<".","e","n","v">>,
        <<".","p","y">>, <<".","j","a","v","a">>, <<".","c","p","p">>, <<".","c">>,
        <<".","h">>, <<".","h","p","p">>, <<".","c","s">>, <<".","j","s">>,
        <<".","t","s">>, <<".","p","h","p">>, <<".","r","b">>, <<".","g","o">>,
        <<".","r","s">>, <<".","s","w","i","f","t">>, <<".","k","t">>,
        <<".","s","c","a","l","a">>, <<".","s","h">>, <<".","b","a","s","h">>,
        <<".","p","s","1">>, <<".","b","a","t">>, <<".","c","m","d">>,
        <<".","v","b","s">>, <<".","s","q","l">>, <<".","t","o","m","l">>},
     handler |-> "read_text_file",
     mime_types |-> {MimePlain, MimePython, MimeJson, MimeXml, MimeHtml},
     requires |-> {},
     max_size |-> Some(10 * MB)]]

TypeNames == {FileTypes[i] : i \in 1..Len(FileTypes)}

RegisteredExtensions == UNION {FILE_TYPES_CONFIG[t].extensions : t \in TypeNames}

\* The class-body loop: the registry's items in order, each extension
\* lower-cased, a later file type overwriting an earlier one.
EXTENSION_TO_TYPE ==
    [e \in {Lower(x) : x \in RegisteredExtensions} |->
        LET owners == {i \in 1..Len(FileTypes) :
                         \E x \in FILE_TYPES_CONFIG[FileTypes[i]].extensions : Lower(x) = e}
        IN  FileTypes[CHOOSE i \in owners : \A j \in owners : j <= i]]

-----------------------------------------------------------------------------
(* Files                                                                   *)

\* What magic.from_file raises when libmagic itself fails (not an ImportError)
MagicError == <<"MagicException">>

MimeOctet == <<"application/octet-stream">>
MimeDir == <<"inode/directory">>
\* vendor-prefixed Office types that are not in the registry
MimeDotx == <<"application/", OfficeVendor, ".", "wordprocessingml", ".template">>
MimeXltx == <<"application/", OfficeVendor, ".", "spreadsheetml", ".template">>
MimePpsx == <<"application/", OfficeVendor, ".", "presentationml", ".slideshow">>
MimeOfficeOther == <<"application/", OfficeVendor, ".", "drawing+xml">>

\* The first bytes of a file, as a sequence of words; every sample is far
\* shorter than the 1024 bytes read and the 100 bytes searched for "{\rtf".
SigPdf == "%PDF"
SigZip == "PK\\x03\\x04"
SigRtf == "{\\rtf"
Plain == "plain"

Missing == [kind |-> "missing"]
Directory == [kind |-> "dir", size |-> 0, header |-> <<>>, mime |-> MimeDir]

RegularFile(size, header, mime) ==
    [kind |-> "file", size |-> size, header |-> header, mime |-> mime]

\* An outcome of a call: an exception (cause: the exception it was made
\* from; missing: the packages a DependencyMissingError names) or a value.
Raise(exc, msg) ==
    [kind |-> "raise", exc |-> exc, msg |-> msg, cause |-> None, missing |-> {}]
Return(v) == [kind |-> "return", value |-> v]

\* Method 1 of detect_file_type, given the MIME type magic reported:
\* the registry's mime_types in order, then the Office vendor prefix.
\* None: no match, fall through to method 2.
MimeMethod(mime_type) ==
    LET hits == {i \in 1..Len(FileTypes) :
                    mime_type \in FILE_TYPES_CONFIG[FileTypes[i]].mime_types}
    IN  IF hits # {} THEN FileTypes[CHOOSE i \in hits : \A j \in hits : i <= j]
        ELSE IF InSeq(OfficeVendor, mime_type)
             THEN IF InSeq("wordprocessingml", mime_type) THEN "docx"
                  ELSE IF InSeq("spreadsheetml", mime_type) THEN "excel"
                  ELSE IF InSeq("presentationml", mime_type) THEN "pptx"
                  ELSE None
        ELSE None

ExtensionMethodAsIs(name) ==
    LET extension == Suffix(name)
    IN  IF extension \in DOMAIN EXTENSION_TO_TYPE THEN EXTENSION_TO_TYPE[extension]
        ELSE None

\* Method 2: the lower-cased suffix looked up in EXTENSION_TO_TYPE
ExtensionMethod(name) ==
    LET extension == Lower(Suffix(name))
    IN  IF extension \in DOMAIN EXTENSION_TO_TYPE THEN EXTENSION_TO_TYPE[extension]
        ELSE None

SignatureMethodNoPdf(f) ==
    IF f.kind # "file" THEN None
    ELSE IF Len(f.header) >= 1 /\ f.header[1] = SigZip THEN None
    ELSE IF InSeq(SigRtf, f.header) THEN "docx"
    ELSE None

\* Method 3: the magic numbers in the file's first bytes; open() of a
\* directory raises, which the code swallows.
SignatureMethod(f) ==
    IF f.kind # "file" THEN None
    ELSE IF Len(f.header) >= 1 /\ f.header[1] = SigPdf THEN "pdf"
    ELSE IF Len(f.header) >= 1 /\ f.header[1] = SigZip THEN None
    ELSE IF InSeq(SigRtf, f.header) THEN "docx"
    ELSE None

\* The body of detect_file_type, run on a cache miss
DetectBody(name, f, magic) ==
    IF f.kind = "missing" THEN Raise("FileNotFoundError", "not found")
    ELSE IF magic /\ f.mime = MagicError THEN Raise("MagicException", "magic failed")
    ELSE IF magic /\ MimeMethod(f.mime) # None THEN Return(MimeMethod(f.mime))
    ELSE IF ExtensionMethod(name) # None THEN Return(ExtensionMethod(name))
    ELSE Return(SignatureMethod(f))

\* functools.lru_cache(maxsize=100)
lru_maxsize == 100

CacheHas(c, key) == \E i \in 1..Len(c) : c[i].key = key
CacheIndex(c, key) == CHOOSE i \in 1..Len(c) : c[i].key = key
CacheValue(c, key) == c[CacheIndex(c, key)].value

\* a hit moves the entry to the most-recently-used end
CacheTouch(c, key) ==
    LET i == CacheIndex(c, key)
    IN  SubSeq(c, 1, i-1) \o SubSeq(c, i+1, Len(c)) \o <<c[i]>>

\* a miss appends the result and drops the least recently used beyond maxsize
CachePut(c, key, value) ==
    LET d == Append(c, [key |-> key, value |-> value])
    IN  IF Len(d) > lru_maxsize THEN Tail(d) ELSE d

\* detect_file_type as the decorator leaves it: keyed by the path alone; a
\* raised exception is not cached.  Gives the outcome and the new cache.
detect_file_type(c, name, f, magic) ==
    IF CacheHas(c, name)
    THEN [out |-> Return(CacheValue(c, name)), cache |-> CacheTouch(c, name), hit |-> TRUE]
    ELSE LET o == DetectBody(name, f, magic)
         IN  [out |-> o,
              cache |-> IF o.kind = "return" THEN CachePut(c, name, o.value) ELSE c,
              hit |-> FALSE]

-----------------------------------------------------------------------------
(* read_text_file: the encoding fallback                                   *)

\* Characters of file contents are Unicode code points.
NL == 10
EQ == 61
Whitespace == {32, NL}

\* longest byte string of a sample text file
MaxBytes == 2

\* 'A', a two-byte UTF-8 lead that is also a GBK lead, a three-byte UTF-8
\* lead, a byte cp1252 leaves undefined, and a UTF-8 continuation byte
ByteAlphabet == {65, 196, 227, 129, 163}

RECURSIVE SeqsUpTo(_, _)
SeqsUpTo(S, n) ==
    IF n = 0 THEN {<<>>}
    ELSE LET shorter == SeqsUpTo(S, n - 1)
         IN  shorter \cup {Append(s, x) : s \in {t \in shorter : Len(t) = n - 1}, x \in S}

ByteSamples == SeqsUpTo(ByteAlphabet, MaxBytes)

IsCont(b) == 128 <= b /\ b <= 191

\* One decoding step of a codec on the bytes b (not empty): the number of
\* bytes consumed and the character, or n = 0 where the codec raises
\* UnicodeDecodeError.  A double-byte GBK character is numbered
\* 65536 + 256 * lead + trail and a cp1252 character of 0x80..0x9F is
\* numbered 8192 + byte, which tells the characters apart.
CodecStep(codec, b) ==
    LET b1 == b[1]
        bad == [n |-> 0, ch |-> 0]
    IN  CASE codec = "latin1" -> [n |-> 1, ch |-> b1]
          [] codec = "cp1252" ->
                IF b1 \in {129, 141, 143, 144, 157} THEN bad
                ELSE IF 128 <= b1 /\ b1 <= 159 THEN [n |-> 1, ch |-> 8192 + b1]
                ELSE [n |-> 1, ch |-> b1]
          [] codec = "utf-8" ->
                IF b1 < 128 THEN [n |-> 1, ch |-> b1]
                ELSE IF 194 <= b1 /\ b1 <= 223
                     THEN IF Len(b) >= 2 /\ IsCont(b[2])
                          THEN [n |-> 2, ch |-> (b1 - 192) * 64 + (b[2] - 128)]
                          ELSE bad
                ELSE IF 224 <= b1 /\ b1 <= 239
                     THEN IF /\ Len(b) >= 3 /\ IsCont(b[2]) /\ IsCont(b[3])
                             /\ (b1 = 224 => b[2] >= 160)
                             /\ (b1 = 237 => b[2] <= 159)
                          THEN [n |-> 3,
                                ch |-> (b1 - 224) * 4096 + (b[2] - 128) * 64 + (b[3] - 128)]
                          ELSE bad
                ELSE bad
          [] codec = "gbk" ->
                IF b1 < 128 THEN [n |-> 1, ch |-> b1]
                ELSE IF /\ 129 <= b1 /\ b1 <= 254
                        /\ Len(b) >= 2 /\ 64 <= b[2] /\ b[2] <= 254 /\ b[2] # 127
                     THEN [n |-> 2, ch |-> 65536 + 256 * b1 + b[2]]
                     ELSE bad
          [] codec = "gb2312" ->
                IF b1 < 128 THEN [n |-> 1, ch |-> b1]
                ELSE IF /\ (161 <= b1 /\ b1 <= 169) \/ (176 <= b1 /\ b1 <= 247)
                        /\ Len(b) >= 2 /\ 161 <= b[2] /\ b[2] <= 254
                     THEN [n |-> 2, ch |-> 65536 + 256 * b1 + b[2]]
                     ELSE bad

\* bytes.decode(codec): the text, or ok = FALSE for UnicodeDecodeError
RECURSIVE Decode(_, _)
Decode(codec, b) ==
    IF b = <<>> THEN [ok |-> TRUE, text |-> <<>>]
    ELSE LET s == CodecStep(codec, b)
         IN  IF s.n = 0 THEN [ok |-> FALSE, text |-> <<>>]
             ELSE LET rest == Decode(codec, SubSeq(b, s.n + 1, Len(b)))
                  IN  IF rest.ok THEN [ok |-> TRUE, text |-> <<s.ch>> \o rest.text]
                      ELSE rest

\* codecs.lookup: the codec an encoding name stands for; None: LookupError
CodecOf(enc) ==
    CASE enc \in {"utf-8", "utf8", "UTF-8", "ascii"} -> "utf-8"
      [] enc \in {"gbk", "GBK"} -> "gbk"
      [] enc \in {"gb2312", "GB2312"} -> "gb2312"
      [] enc \in {"latin1", "ISO-8859-1"} -> "latin1"
      [] enc \in {"cp1252", "Windows-1252"} -> "cp1252"
      [] OTHER -> None

\* open(file_path, 'r', encoding=enc).read()
OpenRead(b, enc) ==
    IF CodecOf(enc) = None THEN [ok |-> FALSE, text |-> <<>>]
    ELSE Decode(CodecOf(enc), b)

FixedFallback == <<"utf-8", "gbk", "gb2312", "latin1", "cp1252">>

\* chardet's confidence, in hundredths
ConfidenceThreshold == 70

\* the list read_text_file builds: encodings_to_try
EncodingsToTry(encoding, chardet_available, detected) ==
    LET base == IF ~chardet_available THEN FixedFallback ELSE <<>>
        hinted == IF encoding # None THEN <<encoding>> \o base ELSE base
        probed == IF chardet_available /\ detected.confidence > ConfidenceThreshold
                  THEN <<detected.encoding>> \o hinted
                  ELSE hinted
    IN  IF ~InSeq("utf-8", probed) THEN Append(probed, "utf-8") ELSE probed

\* the first candidate that decodes the whole file, 0 if none does
FirstDecoding(b, encs) ==
    LET good == {i \in 1..Len(encs) : OpenRead(b, encs[i]).ok}
    IN  IF good = {} THEN 0 ELSE CHOOSE i \in good : \A j \in good : i <= j

\* read_text_file(file_path, encoding)
read_text_file(b, encoding, chardet_available, detected) ==
    LET encs == EncodingsToTry(encoding, chardet_available, detected)
        i == FirstDecoding(b, encs)
    IN  IF i = 0 THEN Raise("FileReaderError", "cannot decode")
        ELSE Return(OpenRead(b, encs[i]).text)

-----------------------------------------------------------------------------
(* Exceptions                                                              *)

FileReaderErrorFamily ==
    {"FileReaderError", "UnsupportedFileError", "FileTooLargeError", "DependencyMissingError"}

\* the except clauses of read_file: a FileReaderError is re-raised, anything
\* else becomes a FileReaderError that carries the original text
\* the bug of letting every exception through
CoerceKeepAll(o) == o

Coerce(o) ==
    IF o.kind # "raise" \/ o.exc \in FileReaderErrorFamily THEN o
    ELSE [Raise("FileReaderError", o.msg) EXCEPT !.cause = o.exc]

\* the except clauses of _process_file, first match wins
ProcessFileBranch(o) ==
    IF o.kind # "raise" THEN "success"
    ELSE IF o.exc = "FileNotFoundError" THEN "not_found"
    ELSE IF o.exc = "FileTooLargeError" THEN "too_large"
    ELSE IF o.exc = "UnsupportedFileError" THEN "unsupported"
    ELSE IF o.exc = "DependencyMissingError" THEN "missing_dependency"
    ELSE "generic"

-----------------------------------------------------------------------------
(* validate_file, check_dependencies, the extractors, truncation           *)

\* FileReader.__init__: max_file_size or 50 MB
FileReaderInit(arg) == IF IsSome(arg) /\ ValueOf(arg) # 0 THEN ValueOf(arg) ELSE 50 * MB

validate_file_TypeFirst(c, name, f, limit, magic) ==
    IF f.kind = "missing"
    THEN [out |-> Raise("FileNotFoundError", "not found"), cache |-> c, classified |-> FALSE]
    ELSE IF f.kind # "file"
    THEN [out |-> Raise("FileReaderError", "not a file"), cache |-> c, classified |-> FALSE]
    ELSE LET d == detect_file_type(c, name, f, magic)
         IN  IF d.out.kind = "raise"
             THEN [out |-> d.out, cache |-> d.cache, classified |-> TRUE]
             ELSE IF d.out.value = None
             THEN [out |-> Raise("UnsupportedFileError", "unsupported format"),
                   cache |-> d.cache, classified |-> TRUE]
             ELSE IF f.size > limit
             THEN [out |-> Raise("FileTooLargeError", "file too large"),
                   cache |-> d.cache, classified |-> TRUE]
             ELSE [out |-> Return(d.out.value), cache |-> d.cache, classified |-> TRUE]

\* validate_file: existence, is_file, the global ceiling, classification,
\* the file type's own ceiling.  classified: detect_file_type was called.
validate_file(c, name, f, limit, magic) ==
    IF f.kind = "missing"
    THEN [out |-> Raise("FileNotFoundError", "not found"), cache |-> c, classified |-> FALSE]
    ELSE IF f.kind # "file"
    THEN [out |-> Raise("FileReaderError", "not a file"), cache |-> c, classified |-> FALSE]
    ELSE IF f.size > limit
    THEN [out |-> Raise("FileTooLargeError", "file too large"), cache |-> c,
          classified |-> FALSE]
    ELSE LET d == detect_file_type(c, name, f, magic)
         IN  IF d.out.kind = "raise"
             THEN [out |-> d.out, cache |-> d.cache, classified |-> TRUE]
             ELSE IF d.out.value = None
             THEN [out |-> Raise("UnsupportedFileError", "unsupported format"),
                   cache |-> d.cache, classified |-> TRUE]
             ELSE LET info == FILE_TYPES_CONFIG[d.out.value]
                  IN  IF IsSome(info.max_size) /\ ValueOf(info.max_size) # 0
                         /\ f.size > ValueOf(info.max_size)
                      THEN [out |-> Raise("FileTooLargeError", "file type too large"),
                            cache |-> d.cache, classified |-> TRUE]
                      ELSE [out |-> Return(d.out.value), cache |-> d.cache,
                            classified |-> TRUE]

Requirements == {"pdfminer", "docx2txt", "pandas", "python-docx", "python-pptx"}

\* the package check_dependencies names for a requirement
PackageOf(dep) == IF dep = "pdfminer" THEN "pdfminer.six" ELSE dep

\* the bug of dispatching without looking at the requirements
check_dependencies_Skipped(file_type, av) == Return(None)

\* check_dependencies(file_type), under the availability flags av
check_dependencies(file_type, av) ==
    LET requires == IF file_type \in TypeNames THEN FILE_TYPES_CONFIG[file_type].requires
                    ELSE {}
        missing_deps == {PackageOf(dep) : dep \in {r \in requires : ~av[r]}}
    IN  IF missing_deps = {} THEN Return(None)
        ELSE [Raise("DependencyMissingError", "install the missing packages")
                 EXCEPT !.missing = missing_deps]

\* handler_map.get(file_type)
HandlerMap(file_type) ==
    CASE file_type = "pdf" -> "read_pdf_to_text"
      [] file_type = "docx" -> "read_docx_to_text"
      [] file_type = "excel" -> "read_excel_to_text"
      [] file_type = "csv" -> "read_csv_to_text"
      [] file_type = "pptx" -> "read_pptx_to_text"
      [] file_type = "text" -> "read_text_file"
      [] OTHER -> None

\* str.strip()
Strip(s) ==
    LET keep == {i \in 1..Len(s) : s[i] \notin Whitespace}
    IN  IF keep = {} THEN <<>>
        ELSE SubSeq(s, CHOOSE i \in keep : \A j \in keep : i <= j,
                       CHOOSE i \in keep : \A j \in keep : j <= i)

\* What an extraction library hands back for a file: a text, or it raises.
Texts == SeqsUpTo({97, 32}, MaxLen)
LibOutcomes == {[ok |-> TRUE, text |-> t] : t \in Texts} \cup {[ok |-> FALSE, text |-> <<>>]}

\* chardet.detect's answers
Detections ==
    {[encoding |-> e, confidence |-> c] :
        e \in {"utf-8", "GB2312", "Windows-1252"}, c \in {50, 70, 99}}

\* "\n\n" + "=" * 50, which opens the sheet and slide listings
Banner == <<NL, NL>> \o Repeat(EQ, 50)

read_pdf_to_text(av, lib) ==
    IF ~av["pdfminer"] THEN Raise("DependencyMissingError", "pdfminer.six needed")
    ELSE IF ~lib.ok THEN Raise("FileReaderError", "reading the PDF failed")
    ELSE Return(Strip(lib.text))

\* lib: pandas on the workbook; its text is the joined sheet listing
read_excel_to_text(av, lib) ==
    IF ~av["pandas"] THEN Raise("DependencyMissingError", "pandas needed")
    ELSE IF ~lib.ok THEN Raise("FileReaderError", "reading the Excel file failed")
    ELSE Return(Banner \o lib.text)

read_csv_to_text(av, lib) ==
    IF ~av["pandas"] THEN Raise("DependencyMissingError", "pandas needed")
    ELSE IF ~lib.ok THEN Raise("FileReaderError", "reading the CSV file failed")
    ELSE Return(lib.text)

read_pptx_to_text(av, lib) ==
    IF ~av["python-pptx"] THEN Raise("DependencyMissingError", "python-pptx needed")
    ELSE IF ~lib.ok THEN Raise("FileReaderError", "reading the PPTX file failed")
    ELSE Return(Banner \o lib.text)

\* read_docx_to_text on a name that is not .doc
read_docx_direct(av, lib) ==
    IF ~av["docx2txt"] \/ ~av["python-docx"]
    THEN Raise("DependencyMissingError", "docx2txt and python-docx needed")
    ELSE IF ~lib.ok THEN Raise("FileReaderError", "reading the Word file failed")
    ELSE Return(Strip(lib.text))

\* the max_length values a caller passes: None or a length
MaxLengths == {Nothing} \cup {Some(n) : n \in 0..MaxCut}

\* "if max_length and len(content) > max_length": the cut content, and
\* whether the marker with the total length was appended to it
Truncate(content, max_length) ==
    IF IsSome(max_length) /\ ValueOf(max_length) # 0
       /\ Len(content) > ValueOf(max_length)
    THEN [content |-> Take(content, ValueOf(max_length)), truncated |-> TRUE, total |-> Len(content)]
    ELSE [content |-> content, truncated |-> FALSE, total |-> Len(content)]

\* What read_file returns: the (cut) content, the marker, the file_info block
Finalize(content, max_length, name, file_type, f) ==
    IF f.kind = "missing" THEN Raise("FileNotFoundError", "stat failed")
    ELSE LET t == Truncate(content, max_length)
         IN  Return([content |-> t.content, truncated |-> t.truncated, total |-> t.total,
                     info |-> [name |-> name, file_type |-> file_type, size |-> f.size]])

-----------------------------------------------------------------------------
(* The state machine                                                       *)

\* every library result, text file, chardet answer and max_length of the bounds
AnyInputs ==
    [libs |-> LibOutcomes, bytes |-> ByteSamples, detections |-> Detections,
     max_lengths |-> MaxLengths]

\* one text or a failure from a library, one text file, no max_length
FewInputs ==
    [libs |-> {[ok |-> TRUE, text |-> <<97, 32>>], [ok |-> FALSE, text |-> <<>>]},
     bytes |-> {<<65>>}, detections |-> {[encoding |-> "utf-8", confidence |-> 99]},
     max_lengths |-> {Nothing}]

\* the repertoire of this run
Repertoire == IF inputs = "few" THEN FewInputs ELSE AnyInputs

Workers == DOMAIN pc
Names == DOMAIN fs
TmpNames == 1..MaxTmp

NoOut == [kind |-> "none"]

IdleLoc ==
    [name |-> <<>>, phase |-> "pre", i |-> 1, file_type |-> None, tmp |-> 0,
     text |-> <<>>, natural |-> <<>>, extracted |-> FALSE, classified |-> FALSE,
     invoked |-> None, seen |-> "none", size_seen |-> 0, max_length |-> Nothing, out |-> NoOut]

NoCall == [op |-> "none"]

\* the steps of read_docx_to_text during which a call uses its artifact
DocSteps == {"doc_convert", "doc_process", "doc_unlink"}

\* worker w's call is using the temporary artifact t
InUse(t, w) == pc[w] \in DocSteps /\ loc[w].tmp = t

\* t is in use by a call other than w's
ForeignInUse(t, w) == \E v \in Workers \ {w} : InUse(t, v)

\* the try block ended with outcome o: on to the finally clause
ToFinally(w, o) ==
    /\ pc' = [pc EXCEPT ![w] = "clean"]
    /\ loc' = [loc EXCEPT ![w].out = Coerce(o), ![w].phase = "post", ![w].i = 1]

\* The environment writes or replaces the file of a name between calls.
WriteFile(samples) ==
    \E name \in Names, f \in samples \ {Missing} :
        /\ \A w \in Workers : pc[w] = "idle"
        /\ f # fs[name]
        /\ fs' = [fs EXCEPT ![name] = f]
        /\ ret' = [w \in Workers |-> NoCall]
        /\ UNCHANGED <<cache, magicAvailable, avail, max_file_size, inputs, pluginVars, temp_files,
                       disk_tmp, tmp_owner, pc, loc, interfered, sample>>

\* The environment removes the file of a name, at any moment.
RemoveFile ==
    \E name \in Names :
        /\ fs[name] # Missing
        /\ fs' = [fs EXCEPT ![name] = Missing]
        /\ ret' = [w \in Workers |-> NoCall]
        /\ UNCHANGED <<cache, magicAvailable, avail, max_file_size, inputs, pluginVars, temp_files,
                       disk_tmp, tmp_owner, pc, loc, interfered, sample>>

\* A direct call of detect_file_type(name) by an idle worker.
DetectFileType(w) ==
    \E name \in Names :
        LET d == detect_file_type(cache, name, fs[name], magicAvailable)
        IN  /\ pc[w] = "idle"
            /\ cache' = d.cache
            /\ ret' = [ret EXCEPT ![w] =
                          [op |-> "detect_file_type", name |-> name, out |-> d.out,
                           hit |-> d.hit]]
            /\ UNCHANGED <<fs, magicAvailable, avail, max_file_size, inputs, pluginVars, temp_files,
                           disk_tmp, tmp_owner, pc, loc, interfered, sample>>

\* read_file(name, ...) is entered: its first statement is cleanup_temp_files.
Call(w) ==
    \E name \in Names :
        /\ pc[w] = "idle"
        /\ pc' = [pc EXCEPT ![w] = "clean"]
        /\ loc' = [loc EXCEPT ![w] = [IdleLoc EXCEPT !.name = name]]
        /\ ret' = [ret EXCEPT ![w] = NoCall]
        /\ UNCHANGED <<fs, cache, magicAvailable, avail, max_file_size, inputs, pluginVars, temp_files,
                       disk_tmp, tmp_owner, interfered, sample>>

\* cleanup_temp_files, one turn of its for loop: the list iterator yields
\* _temp_files[i] if there is one; os.unlink may fail, which is swallowed.
CleanupNext(w) ==
    /\ pc[w] = "clean"
    /\ IF loc[w].i <= Len(temp_files)
       THEN LET t == temp_files[loc[w].i]
            IN  /\ \E unlinked \in BOOLEAN :
                      /\ unlinked => t \in disk_tmp
                      /\ disk_tmp' = IF unlinked THEN disk_tmp \ {t} ELSE disk_tmp
                      /\ interfered' = (interfered \/ (unlinked /\ ForeignInUse(t, w)))
                /\ loc' = [loc EXCEPT ![w].i = @ + 1]
                /\ pc' = pc
       ELSE /\ pc' = [pc EXCEPT ![w] = "clear"]
            /\ UNCHANGED <<loc, disk_tmp, interfered>>
    /\ UNCHANGED <<fs, cache, magicAvailable, avail, max_file_size, inputs, pluginVars, temp_files,
                   tmp_owner, sample, ret>>

\* cleanup_temp_files, its last statement: self._temp_files.clear()
CleanupClear(w) ==
    /\ pc[w] = "clear"
    /\ temp_files' = <<>>
    /\ interfered' = (interfered \/
                        \E k \in 1..Len(temp_files) : ForeignInUse(temp_files[k], w))
    /\ pc' = [pc EXCEPT ![w] = IF loc[w].phase = "pre" THEN "validate" ELSE "return"]
    /\ UNCHANGED <<fs, cache, magicAvailable, avail, max_file_size, inputs, pluginVars, disk_tmp,
                   tmp_owner, loc, sample, ret>>

SizeOf(f) == IF f.kind = "missing" THEN 0 ELSE f.size

\* validate_file(file_path)
Validate(w) ==
    LET name == loc[w].name
        v == validate_file(cache, name, fs[name], max_file_size, magicAvailable)
    IN  /\ pc[w] = "validate"
        /\ cache' = v.cache
        /\ IF v.out.kind = "raise"
           THEN /\ pc' = [pc EXCEPT ![w] = "clean"]
                /\ loc' = [loc EXCEPT ![w].out = Coerce(v.out), ![w].phase = "post",
                                      ![w].i = 1, ![w].classified = v.classified,
                                      ![w].seen = fs[name].kind,
                                      ![w].size_seen = SizeOf(fs[name])]
           ELSE /\ pc' = [pc EXCEPT ![w] = "dispatch"]
                /\ loc' = [loc EXCEPT ![w].file_type = v.out.value,
                                      ![w].classified = v.classified,
                                      ![w].seen = fs[name].kind,
                                      ![w].size_seen = SizeOf(fs[name])]
        /\ UNCHANGED <<fs, magicAvailable, avail, max_file_size, inputs, pluginVars, temp_files,
                       disk_tmp, tmp_owner, interfered, sample, ret>>

\* the handler's outcome for a file type other than a .doc Word file; the
\* libraries succeed only on a file that is still there
HandlerOutcomes(handler, f) ==
    LET libs == IF f.kind = "file" THEN Repertoire.libs ELSE {[ok |-> FALSE, text |-> <<>>]}
    IN  CASE handler = "read_pdf_to_text" -> {read_pdf_to_text(avail, l) : l \in libs}
          [] handler = "read_docx_to_text" -> {read_docx_direct(avail, l) : l \in libs}
          [] handler = "read_excel_to_text" -> {read_excel_to_text(avail, l) : l \in libs}
          [] handler = "read_csv_to_text" -> {read_csv_to_text(avail, l) : l \in libs}
          [] handler = "read_pptx_to_text" -> {read_pptx_to_text(avail, l) : l \in libs}
          [] handler = "read_text_file" ->
                IF f.kind # "file" THEN {Raise("FileNotFoundError", "open failed")}
                ELSE {read_text_file(b, None, avail["chardet"], d) :
                         b \in Repertoire.bytes, d \in Repertoire.detections}

IsDoc(name) == Lower(Suffix(name)) = <<".", "d", "o", "c">>

\* check_dependencies, the handler lookup and the handler, up to the
\* creation of the temporary .docx for a .doc file
Dispatch(w) ==
    LET name == loc[w].name
        file_type == loc[w].file_type
        deps == check_dependencies(file_type, avail)
        handler == HandlerMap(file_type)
        free == TmpNames \ disk_tmp
    IN  /\ pc[w] = "dispatch"
        /\ IF deps.kind = "raise"
           THEN ToFinally(w, deps) /\ UNCHANGED <<temp_files, disk_tmp, tmp_owner>>
           ELSE IF handler = None
           THEN /\ ToFinally(w, Raise("UnsupportedFileError", "no handler"))
                /\ UNCHANGED <<temp_files, disk_tmp, tmp_owner>>
           ELSE IF handler = "read_docx_to_text" /\ IsDoc(name)
                   /\ avail["docx2txt"] /\ avail["python-docx"]
           THEN IF free = {}
                THEN /\ ToFinally(w, Raise("FileReaderError", "reading the Word file failed"))
                     /\ UNCHANGED <<temp_files, disk_tmp, tmp_owner>>
                ELSE \E t \in free :
                        /\ disk_tmp' = disk_tmp \cup {t}
                        /\ temp_files' = Append(temp_files, t)
                        /\ tmp_owner' = [tmp_owner EXCEPT ![t] = w]
                        /\ pc' = [pc EXCEPT ![w] = "doc_convert"]
                        /\ loc' = [loc EXCEPT ![w].tmp = t, ![w].invoked = handler]
           ELSE /\ \E o \in HandlerOutcomes(handler, fs[name]) :
                      IF o.kind = "raise"
                      THEN /\ pc' = [pc EXCEPT ![w] = "clean"]
                           /\ loc' = [loc EXCEPT ![w].out = Coerce(o), ![w].phase = "post",
                                                 ![w].i = 1, ![w].invoked = handler]
                      ELSE /\ pc' = [pc EXCEPT ![w] = "finish"]
                           /\ loc' = [loc EXCEPT ![w].natural = o.value,
                                                 ![w].extracted = TRUE,
                                                 ![w].invoked = handler]
                /\ UNCHANGED <<temp_files, disk_tmp, tmp_owner>>
        /\ UNCHANGED <<fs, cache, magicAvailable, avail, max_file_size, inputs, pluginVars, interfered,
                       sample, ret>>

\* convert_doc_to_docx: Document(doc_file).save(docx_file)
DocConvert(w) ==
    /\ pc[w] = "doc_convert"
    /\ \E converted \in BOOLEAN :
          /\ converted => fs[loc[w].name].kind = "file"
          /\ IF converted
             THEN /\ disk_tmp' = disk_tmp \cup {loc[w].tmp}
                  /\ pc' = [pc EXCEPT ![w] = "doc_process"]
                  /\ loc' = loc
             ELSE /\ ToFinally(w, Raise("FileReaderError", "reading the Word file failed"))
                  /\ disk_tmp' = disk_tmp
    /\ UNCHANGED <<fs, cache, magicAvailable, avail, max_file_size, inputs, pluginVars, temp_files,
                   tmp_owner, interfered, sample, ret>>

\* docx2txt.process(tmp_docx)
DocProcess(w) ==
    /\ pc[w] = "doc_process"
    /\ \E l \in Repertoire.libs :
          /\ l.ok => loc[w].tmp \in disk_tmp
          /\ IF l.ok
             THEN /\ pc' = [pc EXCEPT ![w] = "doc_unlink"]
                  /\ loc' = [loc EXCEPT ![w].text = l.text]
             ELSE ToFinally(w, Raise("FileReaderError", "reading the Word file failed"))
    /\ UNCHANGED <<fs, cache, magicAvailable, avail, max_file_size, inputs, pluginVars, temp_files,
                   disk_tmp, tmp_owner, interfered, sample, ret>>

\* os.unlink(tmp_docx) and, if it succeeded, the removal from _temp_files;
\* a failure is swallowed.  Then text.strip().
DocUnlink(w) ==
    LET t == loc[w].tmp
    IN  /\ pc[w] = "doc_unlink"
        /\ \E unlinked \in BOOLEAN :
              /\ unlinked => t \in disk_tmp
              /\ disk_tmp' = IF unlinked THEN disk_tmp \ {t} ELSE disk_tmp
              /\ temp_files' = IF unlinked /\ InSeq(t, temp_files)
                               THEN RemoveFirst(temp_files, t)
                               ELSE temp_files
        /\ pc' = [pc EXCEPT ![w] = "finish"]
        /\ loc' = [loc EXCEPT ![w].natural = Strip(loc[w].text), ![w].extracted = TRUE]
        /\ UNCHANGED <<fs, cache, magicAvailable, avail, max_file_size, inputs, pluginVars, tmp_owner,
                       interfered, sample, ret>>

\* The truncation and the file_info block.  max_length is an argument of
\* the call that nothing reads before this statement: it is drawn here.
Finish(w) ==
    /\ pc[w] = "finish"
    /\ \E max_length \in Repertoire.max_lengths :
          LET name == loc[w].name
              o == Finalize(loc[w].natural, max_length, name, loc[w].file_type, fs[name])
          IN  /\ pc' = [pc EXCEPT ![w] = "clean"]
              /\ loc' = [loc EXCEPT ![w].out = Coerce(o), ![w].phase = "post", ![w].i = 1,
                                    ![w].max_length = max_length]
    /\ UNCHANGED <<fs, cache, magicAvailable, avail, max_file_size, inputs, pluginVars, temp_files,
                   disk_tmp, tmp_owner, interfered, sample, ret>>

Observation(w, op, o) ==
    [op |-> op, name |-> loc[w].name, out |-> o, max_length |-> loc[w].max_length,
     natural |-> loc[w].natural, extracted |-> loc[w].extracted,
     classified |-> loc[w].classified, invoked |-> loc[w].invoked,
     seen |-> loc[w].seen, size_seen |-> loc[w].size_seen, tmp |-> loc[w].tmp,
     file_type |-> loc[w].file_type]

\* read_file returns to its caller, or raises.
ReturnReadFile(w) ==
    /\ pc[w] = "return"
    /\ ret' = [ret EXCEPT ![w] = Observation(w, "read_file", loc[w].out)]
    /\ pc' = [pc EXCEPT ![w] = "idle"]
    /\ loc' = [loc EXCEPT ![w] = IdleLoc]
    /\ tmp_owner' = [t \in TmpNames |-> IF tmp_owner[t] = w THEN 0 ELSE tmp_owner[t]]
    /\ UNCHANGED <<fs, cache, magicAvailable, avail, max_file_size, inputs, pluginVars, temp_files,
                   disk_tmp, interfered, sample>>

\* read_any_file_to_text around read_file: an exception becomes a message
read_any_file_to_text(o) ==
    IF o.kind = "return" THEN o
    ELSE IF o.exc \in FileReaderErrorFamily
    THEN Return([failed |-> "read failed", msg |-> o.msg])
    ELSE Return([failed |-> "error while reading", msg |-> o.msg])

\* read_file returns into read_any_file_to_text, which returns.
ReturnAnyFile(w) ==
    /\ pc[w] = "return"
    /\ ret' = [ret EXCEPT ![w] =
                  Observation(w, "read_any_file_to_text", read_any_file_to_text(loc[w].out))]
    /\ pc' = [pc EXCEPT ![w] = "idle"]
    /\ loc' = [loc EXCEPT ![w] = IdleLoc]
    /\ tmp_owner' = [t \in TmpNames |-> IF tmp_owner[t] = w THEN 0 ELSE tmp_owner[t]]
    /\ UNCHANGED <<fs, cache, magicAvailable, avail, max_file_size, inputs, pluginVars, temp_files,
                   disk_tmp, interfered, sample>>

\* read_text_file(file_path, encoding) called on the sample text file
ReadTextFile(w) ==
    /\ pc[w] = "idle"
    /\ ret' = [ret EXCEPT ![w] =
                  [op |-> "read_text_file",
                   out |-> read_text_file(sample.bytes, sample.encoding, avail["chardet"],
                                          sample.detected)]]
    /\ UNCHANGED <<fs, cache, magicAvailable, avail, max_file_size, inputs, pluginVars, temp_files,
                   disk_tmp, tmp_owner, pc, loc, interfered, sample>>

-----------------------------------------------------------------------------
(* The plugin astrbot_plugin_file_reader                                   *)

\* message events the plugin handles in a run
MaxEvents == 2

\* Comp.File items of one message
MaxFiles == 2

Events == 1..MaxEvents

\* the k-th Comp.File of the message of event e
FileItem(e, k) == [event |-> e, index |-> k]

\* the text read_file returns for a file item; never empty, read_file ends
\* every content with the file information block
TextOf(item) == <<item.event, item.index>>

\* self.file_reader.read_file(file_path, max_length=100000): the content,
\* or one of the exceptions read_file raises
PluginReads(item) ==
    {Return(TextOf(item))}
      \cup {Raise(x, "reading the file failed") : x \in FileReaderErrorFamily}

\* _process_file(file_item), read_file having come out as o: the dict, or
\* None after any exception
process_file(item, o) ==
    IF o.kind = "return"
    THEN Some([path |-> item, name |-> item, content |-> o.value, size |-> Len(o.value)])
    ELSE Nothing

\* "if file_info and file_info["content"]"
HasContent(file_info) == IsSome(file_info) /\ ValueOf(file_info).content # <<>>

\* history: the dict with the number of the assignment that stored it
Stamp(file_info, s) ==
    Some([path |-> ValueOf(file_info).path, name |-> ValueOf(file_info).name,
          content |-> ValueOf(file_info).content, size |-> ValueOf(file_info).size,
          store |-> s])

\* file_context, the text on_request appends for a stored dict
FileContext(info) == [name |-> info.name, content |-> info.content, store |-> info.store]

\* the bug of leaving current_file_info in place after the injection
on_request_Keeping(info, req_prompt) ==
    IF HasContent(info)
    THEN [current_file_info |-> info,
          prompt |-> Append(req_prompt, FileContext(ValueOf(info)))]
    ELSE [current_file_info |-> info, prompt |-> req_prompt]

\* on_request(event, req): current_file_info and req.prompt afterwards
on_request(info, req_prompt) ==
    IF HasContent(info)
    THEN [current_file_info |-> Nothing,
          prompt |-> Append(req_prompt, FileContext(ValueOf(info)))]
    ELSE [current_file_info |-> info, prompt |-> req_prompt]

NewEvent ==
    [pc |-> "new", wake |-> FALSE, files |-> 0, i |-> 1, had |-> Nothing, left |-> Nothing]

\* __init__ of the plugin; no message event has been handled
PluginInit ==
    /\ current_file_info = Nothing
    /\ handlers = [e \in Events |-> NewEvent]
    /\ prompt = [e \in Events |-> <<>>]
    /\ stored = 0

\* on_receive_msg(event) up to its first await: the message is or is not a
\* wake command and carries some Comp.File items
OnReceiveMsg(e) ==
    /\ handlers[e].pc = "new"
    /\ \E wake \in BOOLEAN, n \in 0..MaxFiles :
          handlers' = [handlers EXCEPT ![e].wake = wake, ![e].files = n,
                          ![e].pc = IF wake /\ n > 0 THEN "get_file" ELSE "received"]
    /\ UNCHANGED <<readerVars, current_file_info, prompt, stored>>

\* on_receive_msg resumes after "await file_item.get_file()": read_file
\* runs, current_file_info is assigned, and the loop goes to the next file
ProcessFile(e) ==
    LET h == handlers[e]
    IN  /\ h.pc = "get_file"
        /\ \E o \in PluginReads(FileItem(e, h.i)) :
              LET file_info == process_file(FileItem(e, h.i), o)
              IN  IF HasContent(file_info)
                  THEN /\ current_file_info' = Stamp(file_info, stored + 1)
                       /\ stored' = stored + 1
                  ELSE /\ current_file_info' = Nothing
                       /\ UNCHANGED stored
        /\ handlers' = [handlers EXCEPT ![e].i = h.i + 1,
                           ![e].pc = IF h.i = h.files THEN "received" ELSE "get_file"]
        /\ UNCHANGED <<readerVars, prompt>>

\* on_request(event, req) for the LLM request of a message event whose
\* on_receive_msg has finished; it has no await, so it is one step
OnRequest(e) ==
    LET r == on_request(current_file_info, prompt[e])
    IN  /\ handlers[e].pc = "received"
        /\ current_file_info' = r.current_file_info
        /\ prompt' = [prompt EXCEPT ![e] = r.prompt]
        /\ handlers' = [handlers EXCEPT ![e].pc = "done", ![e].had = current_file_info,
                           ![e].left = r.current_file_info]
        /\ UNCHANGED <<readerVars, stored>>

-----------------------------------------------------------------------------
(* Initial states and specifications                                       *)

AllAvailable == [d \in Requirements \cup {"chardet"} |-> TRUE]
NoneAvailable == [d \in Requirements \cup {"chardet"} |-> FALSE]
NoChardet == [AllAvailable EXCEPT !["chardet"] = FALSE]
NoDocx2txt == [AllAvailable EXCEPT !["docx2txt"] = FALSE]

NoSample == [bytes |-> <<>>, encoding |-> None, detected |-> [encoding |-> "utf-8", confidence |-> 0]]

\* The process has just constructed its FileReader: nothing is cached, no
\* temporary file is tracked, no call is running.
InitWith(names, samples, avails, magics, workers) ==
    /\ fs \in [names -> samples]
    /\ cache = <<>>
    /\ magicAvailable \in magics
    /\ avail \in avails
    /\ max_file_size = FileReaderInit(Nothing)
    /\ temp_files = <<>>
    /\ disk_tmp = {}
    /\ tmp_owner = [t \in TmpNames |-> 0]
    /\ pc = [w \in workers |-> "idle"]
    /\ loc = [w \in workers |-> IdleLoc]
    /\ interfered = FALSE
    /\ ret = [w \in workers |-> NoCall]
    /\ PluginInit

Stem == <<"f">>

\* -- classification: one file, of any registered extension in lower or
\* upper case, after a stem or as the whole name, or of no registered one
ClassifyNames ==
    {Stem \o e : e \in RegisteredExtensions}
      \cup {Stem \o Upper(e) : e \in RegisteredExtensions}
      \cup RegisteredExtensions
      \cup {Stem, Stem \o <<".", "b", "i", "n">>, Stem \o <<".">>}

ClassifyHeaders ==
    {<<>>, <<SigPdf>>, <<SigZip>>, <<SigRtf>>, <<Plain>>, <<Plain, SigRtf>>}

ClassifyMimes ==
    {MimePdf, MimePlain, MimeCsv, MimeDotx, MimeXltx, MimePpsx, MimeOfficeOther,
     MimeOctet, MagicError}

ClassifySamples ==
    {Missing, Directory}
      \cup {RegularFile(1, h, m) : h \in ClassifyHeaders, m \in ClassifyMimes}

ClassifyInit ==
    /\ \E n \in ClassifyNames : InitWith({n}, {Missing}, {AllAvailable}, BOOLEAN, {1})
    /\ sample = NoSample
    /\ inputs = "few"

ClassifyNext ==
    \/ WriteFile(ClassifySamples)
    \/ RemoveFile
    \/ \E w \in Workers : DetectFileType(w)

SpecClassify == ClassifyInit /\ [][ClassifyNext]_vars

\* -- read_file: one file and one call at a time
ReadNames ==
    {Stem \o e : e \in {<<".","p","d","f">>, <<".","D","O","C">>, <<".","d","o","c","x">>,
                        <<".","x","l","s","x">>, <<".","c","s","v">>,
                        <<".","p","p","t","x">>, <<".","t","x","t">>,
                        <<".","b","i","n">>}}

ReadSizes == {1, 10 * MB + 1, 50 * MB + 1}

ReadSamples ==
    {Missing, Directory}
      \cup {RegularFile(s, h, m) :
              s \in ReadSizes, h \in {<<SigPdf>>, <<Plain>>}, m \in {MimePlain, MimeOctet}}

Init ==
    /\ \E n \in ReadNames :
          InitWith({n}, {Missing}, {AllAvailable, NoneAvailable, NoDocx2txt}, BOOLEAN, {1})
    /\ sample = NoSample
    /\ inputs = "any"

Next ==
    \/ WriteFile(ReadSamples)
    \/ RemoveFile
    \/ \E w \in Workers : Call(w)
    \/ \E w \in Workers : CleanupNext(w)
    \/ \E w \in Workers : CleanupClear(w)
    \/ \E w \in Workers : Validate(w)
    \/ \E w \in Workers : Dispatch(w)
    \/ \E w \in Workers : DocConvert(w)
    \/ \E w \in Workers : DocProcess(w)
    \/ \E w \in Workers : DocUnlink(w)
    \/ \E w \in Workers : Finish(w)
    \/ \E w \in Workers : ReturnReadFile(w)
    \/ \E w \in Workers : ReturnAnyFile(w)

Spec == Init /\ [][Next]_vars

\* -- two overlapping read_file calls on one FileReader, for a .doc file
\* and a text file
ConcNames == {Stem \o <<".", "d", "o", "c">>, <<"g", ".", "t", "x", "t">>}

ConcInit ==
    /\ InitWith(ConcNames, {RegularFile(1, <<Plain>>, MimeOctet)}, {AllAvailable}, {FALSE},
                {1, 2})
    /\ sample = NoSample
    /\ inputs = "few"

ConcNext ==
    \/ \E w \in Workers : Call(w)
    \/ \E w \in Workers : CleanupNext(w)
    \/ \E w \in Workers : CleanupClear(w)
    \/ \E w \in Workers : Validate(w)
    \/ \E w \in Workers : Dispatch(w)
    \/ \E w \in Workers : DocConvert(w)
    \/ \E w \in Workers : DocProcess(w)
    \/ \E w \in Workers : DocUnlink(w)
    \/ \E w \in Workers : Finish(w)
    \/ \E w \in Workers : ReturnReadFile(w)

SpecConc == ConcInit /\ [][ConcNext]_vars

\* -- read_text_file on its own: a text file, an encoding hint, chardet's answer
EncodingHints == {None, "gbk", "utf-8", "latin1", "no-such-codec"}

DecodeInit ==
    /\ InitWith({Stem \o <<".", "t", "x", "t">>}, {RegularFile(1, <<Plain>>, MimePlain)},
                {AllAvailable, NoChardet}, {FALSE}, {1})
    /\ sample \in [bytes : ByteSamples, encoding : EncodingHints, detected : Detections]
    /\ inputs = "any"

DecodeNext == \E w \in Workers : ReadTextFile(w)

SpecDecode == DecodeInit /\ [][DecodeNext]_vars

\* message events handled by the plugin, their handlers interleaving at the
\* awaits of on_receive_msg
PluginSpecInit ==
    /\ InitWith({Stem}, {Missing}, {AllAvailable}, {FALSE}, {1})
    /\ sample = NoSample
    /\ inputs = "few"

PluginNext ==
    \/ \E e \in Events : OnReceiveMsg(e)
    \/ \E e \in Events : ProcessFile(e)
    \/ \E e \in Events : OnRequest(e)

SpecPlugin == PluginSpecInit /\ [][PluginNext]_vars

-----------------------------------------------------------------------------
(* Properties                                                              *)

StartsWithPdf(f) == f.kind = "file" /\ Len(f.header) >= 1 /\ f.header[1] = SigPdf

\* none of the magic numbers detect_file_type knows is in the first bytes
NoSignature(f) ==
    f.kind = "file" /\ \A i \in 1..Len(f.header) : f.header[i] \notin {SigPdf, SigZip, SigRtf}

RegistryMimes == UNION {FILE_TYPES_CONFIG[t].mime_types : t \in TypeNames}

\* the MIME probe answered, with a type method 1 resolves to no file type
MimeUnresolved(m) ==
    /\ m # MagicError
    /\ m \notin RegistryMimes
    /\ ~(/\ InSeq(OfficeVendor, m)
         /\ \E part \in {"wordprocessingml", "spreadsheetml", "presentationml"} :
               InSeq(part, m))

\* the MIME probe is unavailable, or it answered
ProbeAnswered(f) == ~magicAvailable \/ f.mime # MagicError

\* the name ends in the extension e, in any letter case
EndsWithCI(name, e) ==
    /\ Len(name) >= Len(e)
    /\ Lower(SubSeq(name, Len(name) - Len(e) + 1, Len(name))) = Lower(e)

\* the file type whose descriptor lists the extension e
RegisteredType(e) == CHOOSE t \in TypeNames : e \in FILE_TYPES_CONFIG[t].extensions

SuffixRegistered(name) ==
    \E e \in RegisteredExtensions : Lower(Suffix(name)) = Lower(e)

Detected(w) == ret[w].op = "detect_file_type"
ReadDone(w) == ret[w].op = "read_file"

\* C1 (as stated): a file whose first bytes are %PDF is classified pdf by
\* detect_file_type, whatever its extension and whatever MIME type the
\* probe reports.
C1_PdfWhateverExtension ==
    \A w \in Workers :
        (/\ Detected(w)
         /\ StartsWithPdf(fs[ret[w].name])
         /\ ProbeAnswered(fs[ret[w].name]))
            => ret[w].out = Return("pdf")

\* C1 (amended): a classification that detect_file_type computes (one not
\* answered from its cache) of a file whose first bytes are %PDF is pdf
\* when the file's extension is not registered and the MIME probe is
\* unavailable or reports a type that resolves to no file type.
C1_PdfBySignatureLast ==
    \A w \in Workers :
        (/\ Detected(w)
         /\ ~ret[w].hit
         /\ StartsWithPdf(fs[ret[w].name])
         /\ ~SuffixRegistered(ret[w].name)
         /\ (~magicAvailable \/ MimeUnresolved(fs[ret[w].name].mime)))
            => ret[w].out = Return("pdf")

\* a %PDF file named f.bin, which the probe calls application/octet-stream,
\* has just been classified pdf
C1_Witness ==
    \E w \in Workers :
        /\ Detected(w)
        /\ ~ret[w].hit
        /\ ret[w].name = Stem \o <<".", "b", "i", "n">>
        /\ StartsWithPdf(fs[ret[w].name])
        /\ magicAvailable
        /\ fs[ret[w].name].mime = MimeOctet
        /\ ret[w].out = Return("pdf")

\* C2 (as stated): read_file(path, max_length=N) cuts a content longer than
\* N to its first N characters, appends the marker with the original length
\* and flags the result truncated; a content of length <= N is returned
\* as it is; for every N, 0 included.
C2_TruncationLaw ==
    \A w \in Workers :
        (ReadDone(w) /\ ret[w].out.kind = "return" /\ IsSome(ret[w].max_length))
            => LET n == ValueOf(ret[w].max_length)
                   natural == ret[w].natural
                   got == ret[w].out.value
               IN  IF Len(natural) > n
                   THEN /\ got.content = Take(natural, n)
                        /\ got.truncated
                        /\ got.total = Len(natural)
                   ELSE got.content = natural /\ ~got.truncated

\* C3: a regular file larger than max_file_size makes read_file raise
\* FileTooLargeError, never UnsupportedFileError, and detect_file_type is
\* not called for it.
C3_TooLargeBeforeUnsupported ==
    \A w \in Workers :
        (ReadDone(w) /\ ret[w].seen = "file" /\ ret[w].size_seen > max_file_size)
            => /\ ret[w].out.kind = "raise"
               /\ ret[w].out.exc = "FileTooLargeError"
               /\ ~ret[w].classified

\* read_file has just raised FileTooLargeError for an oversized file for
\* which no file type can be resolved: f.bin, no signature, no MIME match
C3_Witness ==
    \E w \in Workers :
        /\ ReadDone(w)
        /\ ret[w].size_seen > max_file_size
        /\ ret[w].name = Stem \o <<".", "b", "i", "n">>
        /\ fs[ret[w].name] = RegularFile(50 * MB + 1, <<Plain>>, MimeOctet)
        /\ cache = <<>>
        /\ ret[w].out.kind = "raise"
        /\ ret[w].out.exc = "FileTooLargeError"

\* C4 (as stated): once a read_file call that went down the .doc path has
\* returned or raised, its temporary .docx is not on disk; and a running
\* call has at most one temporary .docx on disk.
C4_NoArtifactRemains ==
    \A w \in Workers :
        /\ (ret[w].op \in {"read_file", "read_any_file_to_text"} /\ ret[w].tmp # 0)
              => ret[w].tmp \notin disk_tmp
        /\ Cardinality({t \in disk_tmp : tmp_owner[t] = w}) <= 1

\* C5 (as stated): no call deletes or untracks the temporary artifact
\* another, overlapping call is using.
C5_CallsIndependent == ~interfered

\* C6 (as stated): what detect_file_type returns for a path is the type of
\* the content the file has at that moment, also after the file was
\* overwritten since an earlier classification.
C6_NeverStale ==
    \A w \in Workers :
        (Detected(w) /\ ret[w].out.kind = "return" /\ fs[ret[w].name].kind = "file")
            => ret[w].out = DetectBody(ret[w].name, fs[ret[w].name], magicAvailable)

\* C7 (as stated): read_file on a path that does not exist raises
\* FileNotFoundError, so that _process_file's "except FileNotFoundError"
\* is the clause that runs.
C7_NotFoundReachesCaller ==
    \A w \in Workers :
        (ReadDone(w) /\ ret[w].seen = "missing")
            => /\ ret[w].out.kind = "raise"
               /\ ret[w].out.exc = "FileNotFoundError"
               /\ ProcessFileBranch(ret[w].out) = "not_found"

\* C8: read_file returns or raises an exception of the FileReaderError
\* family, an exception of another class having been made a plain
\* FileReaderError with the original text; read_any_file_to_text returns.
C8_OnlyTypedFailures ==
    \A w \in Workers :
        /\ ReadDone(w) =>
              \/ ret[w].out.kind = "return"
              \/ /\ ret[w].out.kind = "raise"
                 /\ ret[w].out.exc \in FileReaderErrorFamily
                 /\ (ret[w].out.cause # None => ret[w].out.exc = "FileReaderError")
        /\ ret[w].op = "read_any_file_to_text" => ret[w].out.kind = "return"
        /\ (pc[w] \in {"clean", "clear", "return"} /\ loc[w].phase = "post")
              => (loc[w].out.kind = "raise" => loc[w].out.exc \in FileReaderErrorFamily)

\* read_file has just raised the FileReaderError made from the
\* FileNotFoundError of a missing file
C8_Witness ==
    \E w \in Workers :
        /\ ReadDone(w)
        /\ ret[w].seen = "missing"
        /\ ret[w].out.kind = "raise"
        /\ ret[w].out.exc = "FileReaderError"
        /\ ret[w].out.cause = "FileNotFoundError"

\* the candidate list as C9 states it: the hint, the detected encoding if
\* confident, the fixed fallback list, UTF-8 if not yet present
ClaimedCandidates(encoding, chardet_available, detected) ==
    LET hint == IF encoding # None THEN <<encoding>> ELSE <<>>
        probed == IF chardet_available /\ detected.confidence > ConfidenceThreshold
                  THEN <<detected.encoding>> ELSE <<>>
        listed == hint \o probed \o FixedFallback
    IN  IF ~InSeq("utf-8", listed) THEN Append(listed, "utf-8") ELSE listed

\* C9 (as stated): read_text_file returns the first full decode among the
\* hint, the confidently detected encoding, the fixed fallback list and
\* UTF-8, in this order, the fallback list being there with or without
\* chardet.
C9_CandidateOrder ==
    \A w \in Workers :
        ret[w].op = "read_text_file"
            => LET encs == ClaimedCandidates(sample.encoding, avail["chardet"],
                                             sample.detected)
                   i == FirstDecoding(sample.bytes, encs)
               IN  /\ i # 0
                   /\ ret[w].out = Return(OpenRead(sample.bytes, encs[i]).text)

\* C10 (as stated): an existing file whose name ends in a registered
\* extension, in any letter case, and whose content has no recognizable
\* signature is classified as the file type registered for the extension.
C10_ExtensionDecides ==
    \A w \in Workers : \A e \in RegisteredExtensions :
        (/\ Detected(w)
         /\ NoSignature(fs[ret[w].name])
         /\ ProbeAnswered(fs[ret[w].name])
         /\ EndsWithCI(ret[w].name, e))
            => ret[w].out = Return(RegisteredType(e))

\* C10 (amended): a classification that detect_file_type computes (one not
\* answered from its cache) of an existing file with no recognizable
\* signature whose name is a non-empty stem followed by a registered
\* extension, in any letter case, is the file type registered for the
\* extension when the MIME probe is unavailable or reports a type that
\* resolves to no file type.
C10_ExtensionAfterMime ==
    \A w \in Workers : \A e \in RegisteredExtensions :
        (/\ Detected(w)
         /\ ~ret[w].hit
         /\ NoSignature(fs[ret[w].name])
         /\ EndsWithCI(ret[w].name, e)
         /\ Len(ret[w].name) > Len(e)
         /\ (~magicAvailable \/ MimeUnresolved(fs[ret[w].name].mime)))
            => ret[w].out = Return(RegisteredType(e))

\* the plain file f.CSV has just been classified csv, without a MIME probe
C10_Witness ==
    \E w \in Workers :
        /\ Detected(w)
        /\ ~ret[w].hit
        /\ ret[w].name = Stem \o <<".", "C", "S", "V">>
        /\ NoSignature(fs[ret[w].name])
        /\ ~magicAvailable
        /\ ret[w].out = Return("csv")

\* the packages check_dependencies has to name for a file type: one for
\* each requirement of the type that is not available
AbsentPackages(file_type) ==
    {PackageOf(r) : r \in {d \in FILE_TYPES_CONFIG[file_type].requires : ~avail[d]}}

\* C11: when the file type validate_file resolved requires a library that
\* is not available, read_file raises DependencyMissingError naming every
\* absent library, no handler is invoked, and the file has passed the size
\* checks and the classification before.
C11_DependenciesBeforeDispatch ==
    \A w \in Workers :
        (/\ ReadDone(w)
         /\ ret[w].file_type \in TypeNames
         /\ AbsentPackages(ret[w].file_type) # {})
            => /\ ret[w].out.kind = "raise"
               /\ ret[w].out.exc = "DependencyMissingError"
               /\ ret[w].out.missing = AbsentPackages(ret[w].file_type)
               /\ ret[w].invoked = None
               /\ ~ret[w].extracted
               /\ ret[w].classified
               /\ ret[w].seen = "file"
               /\ ret[w].size_seen <= max_file_size
               /\ LET max_size == FILE_TYPES_CONFIG[ret[w].file_type].max_size
                  IN  IsSome(max_size) => ret[w].size_seen <= ValueOf(max_size)

\* read_file has just refused a Word file, naming both absent packages
C11_Witness ==
    \E w \in Workers :
        /\ ReadDone(w)
        /\ ret[w].file_type = "docx"
        /\ ret[w].classified
        /\ ret[w].invoked = None
        /\ ret[w].out.kind = "raise"
        /\ ret[w].out.exc = "DependencyMissingError"
        /\ ret[w].out.missing = {"docx2txt", "python-docx"}

\* C12 (as stated): whatever the interleaving of the message handlers, a
\* file content on_request appends to the prompt of an event's LLM request
\* is the content of a file attached to the message of that same event.
C12_SameEventOnly ==
    \A e \in Events : \A i \in 1..Len(prompt[e]) : prompt[e][i].name.event = e

\* the requests that were given the content of the s-th assignment
InjectedInto(s) ==
    {e \in Events : \E i \in 1..Len(prompt[e]) : prompt[e][i].store = s}

\* C13: a content stored in current_file_info is appended to at most one
\* LLM request and at most once; an on_request that injected has left
\* current_file_info None and appended exactly that content; an on_request
\* that found nothing stored has left the prompt as it was.
C13_ConsumeOnce ==
    /\ \A s \in 1..stored : Cardinality(InjectedInto(s)) <= 1
    /\ \A e \in Events :
          /\ Len(prompt[e]) <= 1
          /\ handlers[e].pc # "done" => prompt[e] = <<>>
          /\ handlers[e].pc = "done" =>
                IF HasContent(handlers[e].had)
                THEN /\ handlers[e].left = Nothing
                     /\ prompt[e] = <<FileContext(ValueOf(handlers[e].had))>>
                ELSE /\ prompt[e] = <<>>
                     /\ handlers[e].left = handlers[e].had
    /\ IsSome(current_file_info) => InjectedInto(ValueOf(current_file_info).store) = {}

\* one on_request has injected a stored content and left None, and the next
\* on_request, finding nothing, has left its prompt alone
C13_Witness ==
    \E e, g \in Events :
        /\ handlers[e].pc = "done"
        /\ HasContent(handlers[e].had)
        /\ Len(prompt[e]) = 1
        /\ handlers[g].pc = "done"
        /\ handlers[g].had = Nothing
        /\ prompt[g] = <<>>
        /\ current_file_info = Nothing

====
